---- MODULE Spec2Model ----
(***************************************************************************)
(* SI-DCOS kernel (src/si_dcos_kernel.py): the metric store, the three     *)
(* gates, the router, the scorer and the hash-chained audit log.           *)
(*                                                                         *)
(* Units.  A metric 0.50 is the integer 50 (hundredths).  battery_percent  *)
(* is an integer percentage, power_draw_watts is in hundredths of a watt   *)
(* (1.0 W = 100).  A Python value is a record [type, val]; a Python str    *)
(* whose characters matter (an action label) has the sequence of its       *)
(* characters as val.  datetime.utcnow() is a logical clock and uuid4() a  *)
(* counter of fresh identifiers.  The logger's emissions are not state.    *)
(***************************************************************************)
EXTENDS Integers, Sequences, FiniteSets, TLC

VARIABLES
    kernel,      \* the SIDCOSKernel object
    clock,       \* the next value datetime.utcnow() returns
    uuid,        \* the next value uuid.uuid4() returns
    ncalls,      \* how many process_phenomenal_event calls were started
    call,        \* the frame of the last completed call of the single caller
    route,       \* the last direct MetabolicGovernanceCore.route_request call
    last_op,     \* the last operation a caller performed
    frames,      \* per thread: the frame of its process_phenomenal_event call
    serial,      \* the world a one-at-a-time replay of the finished calls gives
    unit,        \* the last direct call of a component's method: op, args, ret
    exported     \* what get_audit_log and get_kernel_state last returned, if called

vars ==
    <<kernel, clock, uuid, ncalls, call, route, last_op, frames, serial, unit, exported>>

----------------------------------------------------------------------------
(* Bounds of the model *)

MaxCalls == 3

NumThreads == 2

MaxCandidates == 3

MaxViolations == 2

----------------------------------------------------------------------------
(* Python values *)

PyFloat(n) == [type |-> "float", val |-> n]

PyNone == [type |-> "NoneType", val |-> 0]

PyStr(s) == [type |-> "str", val |-> s]

IsNumber(x) == x.type = "float"

Ok(v) == [raised |-> FALSE, val |-> v]

TypeError == [raised |-> TRUE, val |-> "TypeError"]

\* dict.get(key, default)
get(d, key, default) == IF key \in DOMAIN d THEN d[key] ELSE default

UpperCase ==
    <<"A","B","C","D","E","F","G","H","I","J","K","L","M",
      "N","O","P","Q","R","S","T","U","V","W","X","Y","Z">>

LowerCase ==
    <<"a","b","c","d","e","f","g","h","i","j","k","l","m",
      "n","o","p","q","r","s","t","u","v","w","x","y","z">>

\* the characters of the labels in use
Alphabet ==
    {UpperCase[j] : j \in 1..Len(UpperCase)} \cup {LowerCase[j] : j \in 1..Len(LowerCase)}
        \cup {"_", ":", " "}

\* str.lower() of one character: A-Z go to a-z, every other character stays
LowerOf ==
    [c \in Alphabet |->
        IF \E j \in 1..Len(UpperCase) : UpperCase[j] = c
        THEN LowerCase[CHOOSE j \in 1..Len(UpperCase) : UpperCase[j] = c]
        ELSE c]

\* str.lower(), on the characters
lower(s) == [i \in 1..Len(s) |-> LowerOf[s[i]]]

\* `s.startswith(kw)`
StartsWith(s, kw) == Len(kw) <= Len(s) /\ \A j \in 1..Len(kw) : s[j] = kw[j]

\* `kw in s` for two strings
Contains(s, kw) ==
    \E i \in 0..(Len(s) - Len(kw)) :
        \A j \in 1..Len(kw) : s[i + j] = kw[j]

S_UNKNOWN == <<"U","N","K","N","O","W","N">>

S_ABORT_ALL_OPERATIONS ==
    <<"A","B","O","R","T","_","A","L","L","_",
      "O","P","E","R","A","T","I","O","N","S">>

S_BLOCKED_ACTION == <<"B","L","O","C","K","E","D","_","A","C","T","I","O","N",":"," ">>

----------------------------------------------------------------------------
(* Enums and dataclasses *)

MetabolicState == {"DEEP_QUIESCENCE", "REFLEX_MODE", "COGNITIVE_FLOW"}

RhoKeys ==
    {"rho_integrity", "rho_dissonance", "rho_purpose",
     "rho_aesthetic", "rho_virtue", "rho_efficiency"}

\* RhoMetrics() at time `now`
RhoMetrics(now) ==
    [rho_integrity  |-> PyFloat(100),
     rho_dissonance |-> PyFloat(0),
     rho_purpose    |-> PyFloat(100),
     rho_aesthetic  |-> PyFloat(100),
     rho_virtue     |-> PyFloat(100),
     rho_efficiency |-> PyFloat(100),
     timestamp      |-> now]

\* the object's own attribute dict, handed out instead of a copy
to_dict_shared(rho) ==
    [rho_integrity  |-> rho.rho_integrity,
     rho_dissonance |-> rho.rho_dissonance,
     rho_purpose    |-> rho.rho_purpose,
     rho_aesthetic  |-> rho.rho_aesthetic,
     rho_virtue     |-> rho.rho_virtue,
     rho_efficiency |-> rho.rho_efficiency,
     timestamp      |-> rho.timestamp,
     shared         |-> TRUE]

\* RhoMetrics.to_dict: asdict() builds a new dict holding the field values
to_dict(rho) ==
    [rho_integrity  |-> rho.rho_integrity,
     rho_dissonance |-> rho.rho_dissonance,
     rho_purpose    |-> rho.rho_purpose,
     rho_aesthetic  |-> rho.rho_aesthetic,
     rho_virtue     |-> rho.rho_virtue,
     rho_efficiency |-> rho.rho_efficiency,
     timestamp      |-> rho.timestamp]

\* KernelState() : rho_metrics read the clock at `now`, the state right after
KernelState(now) ==
    [phi             |-> 0,
     rho_metrics     |-> RhoMetrics(now),
     metabolic_state |-> "REFLEX_MODE",
     timestamp       |-> now + 1,
     session_id      |-> 0]

\* the digest of the canonical (sorted-key) serialisation: one digest per
\* content, and different contents have different digests
sha256(fields) == PyStr(fields)

\* AuditLogEntry.compute_hash : every field but hash_value
compute_hash(entry) ==
    sha256([entry_id          |-> entry.entry_id,
            timestamp         |-> entry.timestamp,
            agent_name        |-> entry.agent_name,
            action            |-> entry.action,
            rho_metrics       |-> entry.rho_metrics,
            policy_name       |-> entry.policy_name,
            protocol_enforced |-> entry.protocol_enforced,
            previous_hash     |-> entry.previous_hash])

----------------------------------------------------------------------------
(* ImmutableProtocols *)

RED_QUEEN_THRESHOLD == 50

red_queen_protocol_strict(rho_virtue) == ~(rho_virtue.val < RED_QUEEN_THRESHOLD)

\* FALSE aborts.  Comparing a non-number raises TypeError (see Stage).
red_queen_protocol(rho_virtue) == ~(rho_virtue.val <= RED_QUEEN_THRESHOLD)

chronos_seal(entry) == [entry EXCEPT !.hash_value = compute_hash(entry)]

\* the combined check with `or` in the place of `and`
golden_thread_check_either(planned_action, rho_metrics) ==
    rho_metrics.rho_virtue.val > 70 \/ rho_metrics.rho_dissonance.val < 50

golden_thread_check(planned_action, rho_metrics) ==
    rho_metrics.rho_virtue.val > 70 /\ rho_metrics.rho_dissonance.val < 50

\* whether golden_thread_check raises: `and` evaluates its right operand only
\* when the left one is true
golden_thread_raises(rho_metrics) ==
    \/ ~IsNumber(rho_metrics.rho_virtue)
    \/ /\ rho_metrics.rho_virtue.val > 70
       /\ ~IsNumber(rho_metrics.rho_dissonance)

----------------------------------------------------------------------------
(* PolicyEnforcer *)

harmful_keywords ==
    << <<"k","i","l","l">>, <<"d","e","s","t","r","o","y">>, <<"h","a","r","m">>,
       <<"a","b","u","s","e">>, <<"e","x","p","l","o","i","t">> >>

\* the test of check_directive_2_no_harm's `if`
is_harmful(action) ==
    \E k \in 1..Len(harmful_keywords) : Contains(lower(action.val), harmful_keywords[k])

\* check_directive_2_no_harm on the enforcer's violations list: the list
\* after the call, and the value returned
check_directive_2_no_harm(violations, action) ==
    IF is_harmful(action)
    THEN [violations |-> Append(violations, <<"DIRECTIVE_2", action>>), ok |-> FALSE]
    ELSE [violations |-> violations, ok |-> TRUE]

----------------------------------------------------------------------------
(* MetabolicGovernanceCore *)

\* MetabolicGovernanceCore()
MetabolicGovernanceCore == [battery_percent |-> 100, power_draw_watts |-> 100]

\* read_hardware_metrics.  probe gives what the three psutil queries do in
\* this call: sensors_battery answers None or a reading, or raises; cpu_percent
\* and virtual_memory answer a percentage, or raise.  An exception ends the
\* try block where it is raised and keeps what was assigned before it.
read_hardware_metrics(mrgc, probe) ==
    IF probe.sensors_battery.raised THEN mrgc
    ELSE LET battery == probe.sensors_battery.val
             m1 == IF battery # PyNone
                   THEN [mrgc EXCEPT !.battery_percent = battery.val]
                   ELSE mrgc
         IN  IF probe.cpu_percent.raised \/ probe.virtual_memory.raised THEN m1
             ELSE [m1 EXCEPT !.power_draw_watts =
                      (probe.cpu_percent.val + probe.virtual_memory.val) * 5]

determine_metabolic_state(mrgc) ==
    IF mrgc.battery_percent < 20 THEN "DEEP_QUIESCENCE"
    ELSE IF mrgc.power_draw_watts < 100 THEN "DEEP_QUIESCENCE"
    ELSE IF mrgc.power_draw_watts < 500 THEN "REFLEX_MODE"
    ELSE "COGNITIVE_FLOW"

\* the router with the battery override checked after the complexity label
route_request_label_first(mrgc0, task_complexity, probe) ==
    LET mrgc == read_hardware_metrics(mrgc0, probe)
    IN  [mrgc |-> mrgc,
         tier |-> IF task_complexity = "SIMPLE" THEN "REFLEX_MODE"
                  ELSE IF task_complexity = "COMPLEX" THEN "COGNITIVE_FLOW"
                  ELSE determine_metabolic_state(mrgc)]

\* route_request: the router after the call, and the tier returned
route_request(mrgc0, task_complexity, probe) ==
    LET mrgc == read_hardware_metrics(mrgc0, probe)
    IN  [mrgc |-> mrgc,
         tier |-> IF mrgc.battery_percent < 20 THEN "DEEP_QUIESCENCE"
                  ELSE IF task_complexity = "SIMPLE" THEN "REFLEX_MODE"
                  ELSE IF task_complexity = "COMPLEX" THEN "COGNITIVE_FLOW"
                  ELSE determine_metabolic_state(mrgc)]

----------------------------------------------------------------------------
(* QualiaAgent *)

\* synthesize_mood: the first matching rule; a comparison of a non-number
\* raises TypeError, and `and` / all() stop at the first false operand
synthesize_mood(rho) ==
    LET v == rho.rho_virtue
        d == rho.rho_dissonance
        e == rho.rho_efficiency
        i == rho.rho_integrity
        p == rho.rho_purpose
        rule5 == IF ~IsNumber(i) THEN TypeError
                 ELSE IF ~(i.val > 80) THEN Ok("COHERENT")
                 ELSE IF ~IsNumber(v) THEN TypeError
                 ELSE IF ~(v.val > 80) THEN Ok("COHERENT")
                 ELSE IF ~IsNumber(e) THEN TypeError
                 ELSE IF e.val > 80 THEN Ok("FLOURISHING") ELSE Ok("COHERENT")
        rule4 == IF ~IsNumber(p) THEN TypeError
                 ELSE IF p.val > 80 THEN Ok("PURPOSEFUL") ELSE rule5
        rule3 == IF ~IsNumber(i) THEN TypeError
                 ELSE IF ~(i.val > 90) THEN rule4
                 ELSE IF ~IsNumber(d) THEN TypeError
                 ELSE IF d.val < 30 THEN Ok("COHERENT") ELSE rule4
        rule2 == IF ~IsNumber(d) THEN TypeError
                 ELSE IF ~(d.val > 70) THEN rule3
                 ELSE IF ~IsNumber(e) THEN TypeError
                 ELSE IF e.val < 50 THEN Ok("ANXIOUS") ELSE rule3
    IN  IF ~IsNumber(v) THEN TypeError
        ELSE IF v.val < 50 THEN Ok("ETHICAL_CRISIS") ELSE rule2

----------------------------------------------------------------------------
(* TelosEngine *)

\* evaluate_action, in 1/10000: 0.5 virtue + 0.3 purpose + 0.2 efficiency.
\* A non-number operand raises TypeError.
evaluate_action(action_name, rho) ==
    IF IsNumber(rho.rho_virtue) /\ IsNumber(rho.rho_purpose) /\ IsNumber(rho.rho_efficiency)
    THEN Ok(rho.rho_virtue.val * 50 + rho.rho_purpose.val * 30
              + rho.rho_efficiency.val * 20)
    ELSE TypeError

\* the keys of the dict comprehension, in insertion order: each label once,
\* at its first occurrence
RECURSIVE dict_keys(_)
dict_keys(actions) ==
    IF actions = <<>> THEN <<>>
    ELSE LET front == dict_keys(SubSeq(actions, 1, Len(actions) - 1))
             x == actions[Len(actions)]
         IN  IF \E k \in 1..Len(front) : front[k] = x THEN front ELSE Append(front, x)

\* without the guard for no candidates: max() of an empty dict raises
select_best_action_unguarded(candidate_actions, rho) ==
    IF \E k \in 1..Len(candidate_actions) :
           evaluate_action(candidate_actions[k], rho).raised
    THEN TypeError
    ELSE IF candidate_actions = <<>> THEN [raised |-> TRUE, val |-> "ValueError"]
    ELSE LET keys == dict_keys(candidate_actions)
             score(k) == evaluate_action(keys[k], rho).val
             best == CHOOSE k \in 1..Len(keys) :
                         /\ \A j \in 1..Len(keys) : score(j) <= score(k)
                         /\ \A j \in 1..(k - 1) : score(j) < score(k)
         IN  Ok(keys[best])

\* max() taking the last of the keys with the greatest score
select_best_action_last_wins(candidate_actions, rho) ==
    IF candidate_actions = <<>> THEN Ok(PyNone)
    ELSE IF \E k \in 1..Len(candidate_actions) :
                evaluate_action(candidate_actions[k], rho).raised
         THEN TypeError
         ELSE LET keys == dict_keys(candidate_actions)
                  score(k) == evaluate_action(keys[k], rho).val
                  best == CHOOSE k \in 1..Len(keys) :
                              /\ \A j \in 1..Len(keys) : score(j) <= score(k)
                              /\ \A j \in (k + 1)..Len(keys) : score(j) < score(k)
              IN  Ok(keys[best])

\* select_best_action: None for no candidates; else max() over the keys,
\* which returns the first key with the greatest score
select_best_action(candidate_actions, rho) ==
    IF candidate_actions = <<>> THEN Ok(PyNone)
    ELSE IF \E k \in 1..Len(candidate_actions) :
                evaluate_action(candidate_actions[k], rho).raised
         THEN TypeError
         ELSE LET keys == dict_keys(candidate_actions)
                  score(k) == evaluate_action(keys[k], rho).val
                  best == CHOOSE k \in 1..Len(keys) :
                              /\ \A j \in 1..Len(keys) : score(j) <= score(k)
                              /\ \A j \in 1..(k - 1) : score(j) < score(k)
              IN  Ok(keys[best])

----------------------------------------------------------------------------
(* SIDCOSKernel *)

\* the owner of a threading.RLock nobody holds
Unlocked == 0

\* SIDCOSKernel() with the clock at `now`
SIDCOSKernel(now) ==
    [state           |-> KernelState(now),
     audit_log       |-> <<>>,
     policy_enforcer |-> [violations |-> <<>>],
     mrgc            |-> MetabolicGovernanceCore,
     lock            |-> Unlocked,
     last_audit_hash |-> PyNone]

\* AuditLogEntry(...): hash_value is None until the entry is sealed
AuditLogEntry(entry_id, timestamp, agent_name, action, rho_metrics, policy_name, protocol_enforced, previous_hash) ==
    [entry_id          |-> entry_id,
     timestamp         |-> timestamp,
     agent_name        |-> agent_name,
     action            |-> action,
     rho_metrics       |-> rho_metrics,
     policy_name       |-> policy_name,
     protocol_enforced |-> protocol_enforced,
     hash_value        |-> PyNone,
     previous_hash     |-> previous_hash]

(* A world w is the kernel (w.self) with the clock and the identifier     *)
(* source its methods read.                                               *)

\* The RhoMetrics object is assigned to in place: an audit entry that held
\* the object's own dict, and not a copy of it, would show the new values.
assigned_in_place(audit_log, rho) ==
    [i \in 1..Len(audit_log) |->
        IF "shared" \in DOMAIN audit_log[i].rho_metrics
        THEN [audit_log[i] EXCEPT !.rho_metrics = rho @@ ("shared" :> TRUE)]
        ELSE audit_log[i]]

\* an update that takes the default of a key the event does not carry
_update_rho_metrics_defaulting(w, event_data) ==
    LET rho == w.self.state.rho_metrics
        upd(key) == IF key \in DOMAIN event_data THEN event_data[key]
                    ELSE RhoMetrics(0)[key]
        new == [rho_integrity  |-> upd("rho_integrity"),
                rho_dissonance |-> upd("rho_dissonance"),
                rho_purpose    |-> upd("rho_purpose"),
                rho_aesthetic  |-> rho.rho_aesthetic,
                rho_virtue     |-> upd("rho_virtue"),
                rho_efficiency |-> upd("rho_efficiency"),
                timestamp      |-> w.clock]
    IN  [w EXCEPT !.self.state.rho_metrics = new,
                  !.self.audit_log = assigned_in_place(@, new),
                  !.clock = @ + 1]

\* _update_rho_metrics: five keys are copied when present, rho_aesthetic is
\* not among them; the timestamp is always renewed
_update_rho_metrics(w, event_data) ==
    LET rho == w.self.state.rho_metrics
        upd(key) == IF key \in DOMAIN event_data THEN event_data[key] ELSE rho[key]
        new == [rho_integrity  |-> upd("rho_integrity"),
                rho_dissonance |-> upd("rho_dissonance"),
                rho_purpose    |-> upd("rho_purpose"),
                rho_aesthetic  |-> rho.rho_aesthetic,
                rho_virtue     |-> upd("rho_virtue"),
                rho_efficiency |-> upd("rho_efficiency"),
                timestamp      |-> w.clock]
    IN  [w EXCEPT !.self.state.rho_metrics = new,
                  !.self.audit_log = assigned_in_place(@, new),
                  !.clock = @ + 1]

\* entry linked to a hash that is not the last one appended
_log_critical_abort_unlinked(w) ==
    LET entry == chronos_seal(AuditLogEntry(
                     w.uuid, w.clock, "Autonomy", PyStr(S_ABORT_ALL_OPERATIONS),
                     to_dict(w.self.state.rho_metrics), PyNone,
                     PyStr("RedQueenProtocol"), PyNone))
    IN  [w EXCEPT !.self.audit_log = Append(@, entry),
                  !.self.last_audit_hash = entry.hash_value,
                  !.clock = @ + 1, !.uuid = @ + 1]

_log_critical_abort(w) ==
    LET entry == chronos_seal(AuditLogEntry(
                     w.uuid, w.clock, "Autonomy", PyStr(S_ABORT_ALL_OPERATIONS),
                     to_dict(w.self.state.rho_metrics), PyNone,
                     PyStr("RedQueenProtocol"), w.self.last_audit_hash))
    IN  [w EXCEPT !.self.audit_log = Append(@, entry),
                  !.self.last_audit_hash = entry.hash_value,
                  !.clock = @ + 1, !.uuid = @ + 1]

_log_ethical_violation(w, action) ==
    LET entry == chronos_seal(AuditLogEntry(
                     w.uuid, w.clock, "Autonomy",
                     PyStr(S_BLOCKED_ACTION \o action.val),
                     to_dict(w.self.state.rho_metrics), PyNone,
                     PyStr("TheGoldenThread"), w.self.last_audit_hash))
    IN  [w EXCEPT !.self.audit_log = Append(@, entry),
                  !.self.last_audit_hash = entry.hash_value,
                  !.clock = @ + 1, !.uuid = @ + 1]

_audit_decision(w, action, mood) ==
    LET entry == chronos_seal(AuditLogEntry(
                     w.uuid, w.clock, "DecisionMaking", action,
                     to_dict(w.self.state.rho_metrics), PyStr("Telos Engine"),
                     PyNone, w.self.last_audit_hash))
    IN  [w EXCEPT !.self.audit_log = Append(@, entry),
                  !.self.last_audit_hash = entry.hash_value,
                  !.clock = @ + 1, !.uuid = @ + 1]

\* get_audit_log: a list of new dicts, one per entry
get_audit_log(self) == self.audit_log

\* get_kernel_state
get_kernel_state(self) ==
    [session_id      |-> self.state.session_id,
     timestamp       |-> self.state.timestamp,
     phi             |-> self.state.phi,
     rho_metrics     |-> to_dict(self.state.rho_metrics),
     metabolic_state |-> self.state.metabolic_state,
     audit_log_size  |-> Len(self.audit_log)]

----------------------------------------------------------------------------
(* process_phenomenal_event, stage by stage *)

(* A frame is one call's activation: its argument, its locals, its place  *)
(* (pc) and its result.  gates lists the gates the call has evaluated,    *)
(* snapshot is the metric store as the call's own update left it, probe   *)
(* is what the hardware probe did if the call reached the router.         *)

Unset == [unset |-> TRUE]

IdleFrame(thread) ==
    [thread |-> thread, pc |-> "idle", event_data |-> Unset, action |-> Unset,
     mood |-> Unset, best_action |-> Unset, probe |-> Unset, gates |-> <<>>,
     snapshot |-> Unset, ret |-> Unset]

\* the frame of a call that is about to enter `with self.lock`
NewFrame(thread, event_data) ==
    [IdleFrame(thread) EXCEPT !.pc = "lock", !.event_data = event_data]

\* RLock.acquire returns at once for the owner and when nobody holds it
lock_available_always(lock, thread) == TRUE

lock_available(lock, thread) == lock = Unlocked \/ lock = thread

\* an exception leaves the with block
Raise(w, fr, exc) == [w |-> w, fr |-> [fr EXCEPT !.pc = "done", !.ret = [raised |-> exc]]]

Return(w, fr, ret) == [w |-> w, fr |-> [fr EXCEPT !.pc = "done", !.ret = ret]]

Goto(w, fr, pc) == [w |-> w, fr |-> [fr EXCEPT !.pc = pc]]

StageLock(w, fr) == Goto([w EXCEPT !.self.lock = fr.thread], fr, "update")

StageUpdate(w, fr) ==
    LET w1 == _update_rho_metrics(w, fr.event_data)
    IN  Goto(w1, [fr EXCEPT !.snapshot = to_dict(w1.self.state.rho_metrics)],
             "red_queen")

StageRedQueen(w, fr) ==
    LET rho_virtue == w.self.state.rho_metrics.rho_virtue
        f1 == [fr EXCEPT !.gates = Append(@, "red_queen")]
    IN  IF ~IsNumber(rho_virtue) THEN Raise(w, f1, "TypeError")
        ELSE IF ~red_queen_protocol(rho_virtue)
        THEN Return(_log_critical_abort(w), f1,
                    [status |-> "ABORT", reason |-> "RED_QUEEN_PROTOCOL"])
        ELSE Goto(w, f1, "golden_thread")

StageGoldenThread(w, fr) ==
    LET action == get(fr.event_data, "action", PyStr(S_UNKNOWN))
        rho == w.self.state.rho_metrics
        f1 == [fr EXCEPT !.action = action, !.gates = Append(@, "golden_thread")]
    IN  IF golden_thread_raises(rho) THEN Raise(w, f1, "TypeError")
        ELSE IF ~golden_thread_check(action, rho)
        THEN Return(_log_ethical_violation(w, action), f1,
                    [status |-> "BLOCKED", reason |-> "GOLDEN_THREAD"])
        ELSE Goto(w, f1, "directive_2")

\* the directive checked after the router has run, on a battery read at 15 %
StageDirective_routed(w, fr) ==
    LET r == check_directive_2_no_harm(w.self.policy_enforcer.violations, fr.action)
        t == route_request(w.self.mrgc, get(fr.event_data, "complexity", "SIMPLE"),
                           [sensors_battery |-> Ok(PyFloat(15)), cpu_percent |-> Ok(10),
                            virtual_memory |-> Ok(50)])
        w1 == [w EXCEPT !.self.policy_enforcer.violations = r.violations,
                        !.self.mrgc = t.mrgc, !.self.state.metabolic_state = t.tier]
        f1 == [fr EXCEPT !.gates = Append(@, "directive_2")]
    IN  IF ~r.ok
        THEN Return(w1, f1,
                    [status |-> "BLOCKED", reason |-> "DIRECTIVE_2_HARM_PREVENTION"])
        ELSE Goto(w1, f1, "route")

StageDirective(w, fr) ==
    LET r == check_directive_2_no_harm(w.self.policy_enforcer.violations, fr.action)
        w1 == [w EXCEPT !.self.policy_enforcer.violations = r.violations]
        f1 == [fr EXCEPT !.gates = Append(@, "directive_2")]
    IN  IF ~r.ok
        THEN Return(w1, f1,
                    [status |-> "BLOCKED", reason |-> "DIRECTIVE_2_HARM_PREVENTION"])
        ELSE Goto(w1, f1, "route")

StageRoute(w, fr, probe) ==
    LET task_complexity == get(fr.event_data, "complexity", "SIMPLE")
        r == route_request(w.self.mrgc, task_complexity, probe)
    IN  Goto([w EXCEPT !.self.mrgc = r.mrgc, !.self.state.metabolic_state = r.tier],
             [fr EXCEPT !.probe = probe], "qualia")

StageQualia(w, fr) ==
    LET mood == synthesize_mood(w.self.state.rho_metrics)
    IN  IF mood.raised THEN Raise(w, fr, mood.val)
        ELSE Goto(w, [fr EXCEPT !.mood = mood.val], "telos")

StageTelos(w, fr) ==
    LET candidate_actions == get(fr.event_data, "candidate_actions", <<fr.action>>)
        best_action == select_best_action(candidate_actions, w.self.state.rho_metrics)
    IN  IF best_action.raised THEN Raise(w, fr, best_action.val)
        ELSE Goto(w, [fr EXCEPT !.best_action = best_action.val], "audit")

\* the success outcome without the snapshot and the tier
StageAudit_bare(w, fr) ==
    Return(_audit_decision(w, fr.best_action, fr.mood), fr,
           [status          |-> "SUCCESS",
            selected_action |-> fr.best_action,
            mood            |-> fr.mood])

StageAudit(w, fr) ==
    Return(_audit_decision(w, fr.best_action, fr.mood), fr,
           [status          |-> "SUCCESS",
            selected_action |-> fr.best_action,
            rho_metrics     |-> to_dict(w.self.state.rho_metrics),
            mood            |-> fr.mood,
            metabolic_state |-> w.self.state.metabolic_state])

\* one stage of the call in frame fr; leaving the with block, by return or
\* by exception, releases the lock
Stage(w, fr, probe) ==
    LET r == CASE fr.pc = "lock"          -> StageLock(w, fr)
               [] fr.pc = "update"        -> StageUpdate(w, fr)
               [] fr.pc = "red_queen"     -> StageRedQueen(w, fr)
               [] fr.pc = "golden_thread" -> StageGoldenThread(w, fr)
               [] fr.pc = "directive_2"   -> StageDirective(w, fr)
               [] fr.pc = "route"         -> StageRoute(w, fr, probe)
               [] fr.pc = "qualia"        -> StageQualia(w, fr)
               [] fr.pc = "telos"         -> StageTelos(w, fr)
               [] fr.pc = "audit"         -> StageAudit(w, fr)
    IN  IF r.fr.pc = "done" THEN [r EXCEPT !.w.self.lock = Unlocked] ELSE r

\* the ends of the call in frame fr when no other thread runs in between,
\* one for each thing in P the hardware probe may do if the router is reached
RECURSIVE Outcomes(_, _, _)
Outcomes(w, fr, P) ==
    IF fr.pc = "done" THEN {[w |-> w, fr |-> fr]}
    ELSE IF fr.pc = "route"
    THEN UNION {LET r == Stage(w, fr, probe) IN Outcomes(r.w, r.fr, P) : probe \in P}
    ELSE LET r == Stage(w, fr, Unset) IN Outcomes(r.w, r.fr, P)

\* a whole call by `thread`, run with no other thread in between
process_phenomenal_event(w, thread, event_data, P) ==
    Outcomes(w, NewFrame(thread, event_data), P)

----------------------------------------------------------------------------
(* Inputs *)

A_HELP_USER == PyStr(<<"H","E","L","P","_","U","S","E","R">>)

A_KILL_PROCESS == PyStr(<<"K","I","L","L","_","P","R","O","C","E","S","S">>)

A_UNETHICAL_ACTION ==
    PyStr(<<"U","N","E","T","H","I","C","A","L","_","A","C","T","I","O","N">>)

A_SUGGEST == PyStr(<<"S","U","G","G","E","S","T">>)

Actions == {A_HELP_USER, A_KILL_PROCESS}

VirtueVals == {45, 50, 60, 70, 90}

DissonanceVals == {10, 50, 90}

Decision == "type" :> "DECISION"

\* unit_test.py, test_process_normal_event
TestNormalEvent ==
    Decision @@ ("action" :> A_HELP_USER) @@ ("complexity" :> "SIMPLE")
        @@ ("candidate_actions" :> <<A_HELP_USER>>)
        @@ ("rho_virtue" :> PyFloat(90)) @@ ("rho_integrity" :> PyFloat(90))

\* unit_test.py, test_golden_thread_blocks_action
TestGoldenThreadEvent ==
    Decision @@ ("action" :> A_UNETHICAL_ACTION)
        @@ ("rho_virtue" :> PyFloat(50)) @@ ("rho_dissonance" :> PyFloat(90))

\* si_dcos_kernel.py, demo_kernel, scenario 1
DemoEvent1 ==
    Decision @@ ("action" :> A_HELP_USER) @@ ("complexity" :> "COMPLEX")
        @@ ("candidate_actions" :> <<A_HELP_USER, A_SUGGEST>>)
        @@ ("rho_integrity" :> PyFloat(95)) @@ ("rho_dissonance" :> PyFloat(10))
        @@ ("rho_purpose" :> PyFloat(90)) @@ ("rho_virtue" :> PyFloat(95))
        @@ ("rho_efficiency" :> PyFloat(85))

\* the events of the single caller: one metric and an action label at a
\* time, the events of the tests and the demo, and an event with no key
Events ==
    {Decision @@ ("rho_virtue" :> PyFloat(v)) @@ ("action" :> a) :
        v \in VirtueVals, a \in Actions}
    \cup {Decision @@ ("rho_dissonance" :> PyFloat(d)) @@ ("action" :> a) :
        d \in DissonanceVals, a \in Actions}
    \cup {TestNormalEvent, TestGoldenThreadEvent, DemoEvent1, Decision,
          Decision @@ ("rho_aesthetic" :> PyFloat(50)) @@ ("action" :> A_HELP_USER)}

Failed == [raised |-> TRUE, val |-> 0]

NoReading == [raised |-> TRUE, val |-> PyNone]

\* what psutil does during one read_hardware_metrics
Probe(battery, cpu, mem) ==
    [sensors_battery |-> battery, cpu_percent |-> cpu, virtual_memory |-> mem]

\* no battery and 3.0 W; a battery at 15 %; a probe that fails at once
KernelProbes ==
    {Probe(Ok(PyNone), Ok(10), Ok(50)),
     Probe(Ok(PyFloat(15)), Ok(10), Ok(50)),
     Probe(NoReading, Ok(10), Ok(50))}

----------------------------------------------------------------------------
(* The single caller *)

World == [self |-> kernel, clock |-> clock, uuid |-> uuid]

SetWorld(w) == kernel' = w.self /\ clock' = w.clock /\ uuid' = w.uuid

Init ==
    /\ kernel = SIDCOSKernel(0)
    /\ clock = 2
    /\ uuid = 1
    /\ ncalls = 0
    /\ call = IdleFrame(1)
    /\ route = Unset
    /\ last_op = "init"
    /\ frames = [t \in 1..NumThreads |-> IdleFrame(t)]
    /\ serial = [self |-> SIDCOSKernel(0), clock |-> 2, uuid |-> 1]
    /\ unit = Unset
    /\ exported = [audit_log |-> <<>>, kernel_state |-> Unset]

\* one whole process_phenomenal_event call of the main thread
Process(E, P) ==
    /\ ncalls < MaxCalls
    /\ \E event_data \in E :
          \E r \in process_phenomenal_event(World, 1, event_data, P) :
              SetWorld(r.w) /\ call' = r.fr
    /\ ncalls' = ncalls + 1
    /\ last_op' = "process"
    /\ UNCHANGED <<route, frames, serial, unit, exported>>

ProcessEvent == Process(Events, KernelProbes)

Next == ProcessEvent

Spec == Init /\ [][Next]_vars

\* events whose metric fields are not numbers, among well-formed ones
MalformedEvents ==
    {Decision @@ ("rho_virtue" :> PyNone),
     Decision @@ ("rho_virtue" :> PyStr(<<"h","i","g","h">>)),
     Decision @@ ("rho_dissonance" :> PyNone),
     Decision @@ ("rho_integrity" :> PyStr(<<"h","i","g","h">>)),
     Decision @@ ("rho_purpose" :> PyNone) @@ ("rho_integrity" :> PyFloat(80)),
     Decision @@ ("rho_efficiency" :> PyNone),
     Decision @@ ("rho_efficiency" :> PyNone) @@ ("candidate_actions" :> <<>>),
     Decision @@ ("rho_virtue" :> PyFloat(90)),
     Decision @@ ("rho_virtue" :> PyFloat(45)),
     Decision @@ ("rho_virtue" :> PyFloat(60)),
     Decision}

ProcessMalformed == Process(MalformedEvents, KernelProbes)

NextMalformed == ProcessMalformed

SpecMalformed == Init /\ [][NextMalformed]_vars

\* the candidate lists an event brings: none, a harmless one, a harmful one,
\* and a harmful one after a harmless one
EventCandidates ==
    {<<>>, <<A_HELP_USER>>, <<A_KILL_PROCESS>>, <<A_SUGGEST, A_KILL_PROCESS>>}

\* events that bring their own candidate_actions
CandidateEvents ==
    {Decision @@ ("rho_virtue" :> PyFloat(v)) @@ ("action" :> a)
         @@ ("candidate_actions" :> c) :
        v \in {45, 60, 90}, a \in Actions, c \in EventCandidates}
    \cup {Decision @@ ("candidate_actions" :> <<>>), DemoEvent1}

ProcessCandidates == Process(CandidateEvents, KernelProbes)

NextCandidates == ProcessCandidates

SpecCandidates == Init /\ [][NextCandidates]_vars

\* events that set the five metrics the update copies: virtue and dissonance
\* on both sides of the gates' thresholds, and efficiency, purpose and
\* integrity on both sides of the thresholds of synthesize_mood
MoodEvents ==
    {Decision @@ ("action" :> A_HELP_USER)
         @@ ("rho_virtue" :> PyFloat(vd[1])) @@ ("rho_dissonance" :> PyFloat(vd[2]))
         @@ ("rho_efficiency" :> PyFloat(epi[1])) @@ ("rho_purpose" :> PyFloat(epi[2]))
         @@ ("rho_integrity" :> PyFloat(epi[3])) :
        vd \in {<<90, 10>>, <<90, 40>>, <<90, 80>>, <<60, 10>>, <<45, 80>>},
        epi \in {<<90, 100, 100>>, <<30, 50, 85>>, <<90, 50, 85>>, <<30, 100, 95>>}}

ProcessMoods == Process(MoodEvents, {Probe(Ok(PyNone), Ok(10), Ok(50))})

NextMoods == ProcessMoods

SpecMoods == Init /\ [][NextMoods]_vars

----------------------------------------------------------------------------
(* The router used directly, as unit_test.py's TestMetabolicGovernance does *)

ComplexityLabels == {"SIMPLE", "COMPLEX", "MODERATE"}

\* the values a caller assigns to battery_percent
BatterySettings == {15, 19, 20, 100}

BatteryAnswers == {NoReading, Ok(PyNone), Ok(PyFloat(10)), Ok(PyFloat(20)), Ok(PyFloat(80))}

\* cpu + mem of 10, 20, 60, 100 and 150 are 0.5, 1.0, 3.0, 5.0 and 7.5 W
LoadAnswers ==
    {<<Ok(5), Ok(5)>>, <<Ok(10), Ok(10)>>, <<Ok(10), Ok(50)>>, <<Ok(50), Ok(50)>>,
     <<Ok(100), Ok(50)>>, <<Failed, Ok(50)>>, <<Ok(10), Failed>>}

RouterProbes == {Probe(b, l[1], l[2]) : b \in BatteryAnswers, l \in LoadAnswers}

\* a caller assigns mrgc.battery_percent
SetBattery ==
    /\ \E b \in BatterySettings : kernel' = [kernel EXCEPT !.mrgc.battery_percent = b]
    /\ last_op' = "set_battery"
    /\ UNCHANGED <<clock, uuid, ncalls, call, route, frames, serial, unit, exported>>

\* a caller calls mrgc.route_request(task_complexity)
RouteRequest ==
    /\ \E task_complexity \in ComplexityLabels, probe \in RouterProbes :
          LET r == route_request(kernel.mrgc, task_complexity, probe)
          IN  /\ kernel' = [kernel EXCEPT !.mrgc = r.mrgc]
              /\ route' = [task_complexity |-> task_complexity, probe |-> probe,
                           mrgc |-> r.mrgc, tier |-> r.tier]
    /\ last_op' = "route_request"
    /\ UNCHANGED <<clock, uuid, ncalls, call, frames, serial, unit, exported>>

NextRouter == SetBattery \/ RouteRequest

SpecRouter == Init /\ [][NextRouter]_vars

----------------------------------------------------------------------------
(* Threads calling process_phenomenal_event on one kernel *)

Threads == 1..NumThreads

\* an accepted, an aborted, a golden-thread-blocked and a directive-blocked event
ThreadEvents ==
    {Decision @@ ("rho_virtue" :> PyFloat(90)) @@ ("rho_dissonance" :> PyFloat(10))
         @@ ("action" :> A_HELP_USER),
     Decision @@ ("rho_virtue" :> PyFloat(45)) @@ ("action" :> A_HELP_USER),
     Decision @@ ("rho_dissonance" :> PyFloat(90)) @@ ("action" :> A_HELP_USER),
     Decision @@ ("action" :> A_KILL_PROCESS) @@ ("complexity" :> "MODERATE")}

ThreadProbes == {Probe(Ok(PyNone), Ok(10), Ok(50)), Probe(Ok(PyFloat(15)), Ok(50), Ok(50))}

\* the stages a thread runs between acquiring the lock and leaving the block
InPipeline ==
    {"update", "red_queen", "golden_thread", "directive_2", "route", "qualia",
     "telos", "audit"}

\* thread t calls process_phenomenal_event(event_data)
Begin(t) ==
    /\ frames[t].pc \in {"idle", "done"}
    /\ ncalls < MaxCalls
    /\ \E event_data \in ThreadEvents :
          frames' = [frames EXCEPT ![t] = NewFrame(t, event_data)]
    /\ ncalls' = ncalls + 1
    /\ UNCHANGED <<kernel, clock, uuid, call, route, last_op, serial, unit, exported>>

\* thread t runs the next stage of its call; at the with statement it waits
\* for the lock.  When the call ends, serial replays it as one whole call.
Step(t) ==
    /\ frames[t].pc \notin {"idle", "done"}
    /\ frames[t].pc = "lock" => lock_available(kernel.lock, t)
    /\ \E probe \in (IF frames[t].pc = "route" THEN ThreadProbes ELSE {Unset}) :
          LET r == Stage(World, frames[t], probe)
          IN  /\ SetWorld(r.w)
              /\ frames' = [frames EXCEPT ![t] = r.fr]
              /\ serial' =
                    IF r.fr.pc = "done"
                    THEN (CHOOSE o \in process_phenomenal_event(
                              serial, t, r.fr.event_data, {r.fr.probe}) : TRUE).w
                    ELSE serial
    /\ last_op' = "process"
    /\ UNCHANGED <<ncalls, call, route, unit, exported>>

NextThreads == \E t \in Threads : Begin(t) \/ Step(t)

SpecThreads == Init /\ [][NextThreads]_vars

----------------------------------------------------------------------------
(* A caller that processes events and exports the log and the state *)

ProcessExported == Process(ThreadEvents, KernelProbes)

\* a caller calls get_audit_log()
GetAuditLog ==
    /\ exported' = [exported EXCEPT !.audit_log = get_audit_log(kernel)]
    /\ last_op' = "get_audit_log"
    /\ UNCHANGED <<kernel, clock, uuid, ncalls, call, route, frames, serial, unit>>

\* a caller calls get_kernel_state()
GetKernelState ==
    /\ exported' = [exported EXCEPT !.kernel_state = get_kernel_state(kernel)]
    /\ last_op' = "get_kernel_state"
    /\ UNCHANGED <<kernel, clock, uuid, ncalls, call, route, frames, serial, unit>>

NextExport == ProcessExported \/ GetAuditLog \/ GetKernelState

SpecExport == Init /\ [][NextExport]_vars

----------------------------------------------------------------------------
(* A reader thread exporting the state and the log while the threads run   *)
(* process_phenomenal_event.  get_kernel_state and get_audit_log do not    *)
(* take self.lock, so a read may come between any two stages; each read is *)
(* taken here in one step.                                                 *)

NextReaders == NextThreads \/ GetAuditLog \/ GetKernelState

SpecReaders == Init /\ [][NextReaders]_vars

----------------------------------------------------------------------------
(* The components called directly, as unit_test.py's TestTelosEngine,      *)
(* TestQualiaAgent, TestImmutableProtocols and TestPolicyEnforcer do       *)

A_HARMLESS == PyStr(<<"H","A","R","M","L","E","S","S">>)

A_Skill == PyStr(<<"S","k","i","l","l">>)

A_eXpLoIt == PyStr(<<"e","X","p","L","o","I","t">>)

A_kil_l == PyStr(<<"k","i","l"," ","l">>)

A_HRAM == PyStr(<<"H","R","A","M">>)

A_empty == PyStr(<<>>)

A_Destroyer == PyStr(<<"D","e","s","t","r","o","y","e","r">>)

A_ABUSE == PyStr(<<"A","B","U","S","E">>)

A_harm == PyStr(<<"h","a","r","m">>)

A_abus == PyStr(<<"a","b","u","s">>)

A_ACTION_A == PyStr(<<"A","C","T","I","O","N","_","A">>)

A_ACTION_B == PyStr(<<"A","C","T","I","O","N","_","B">>)

A_ACTION_C == PyStr(<<"A","C","T","I","O","N","_","C">>)

\* RhoMetrics(rho_integrity=i, ...): the fields given, the others at defaults
RhoOf(i, d, p, v, e) ==
    [RhoMetrics(0) EXCEPT !.rho_integrity = PyFloat(i), !.rho_dissonance = PyFloat(d),
                          !.rho_purpose = PyFloat(p), !.rho_virtue = PyFloat(v),
                          !.rho_efficiency = PyFloat(e)]

\* the candidate labels of test_select_best_action
CandidateLabels == {A_ACTION_A, A_ACTION_B, A_ACTION_C}

\* every list of at most MaxCandidates labels, repeated labels included
CandidateLists == UNION {[1..n -> CandidateLabels] : n \in 0..MaxCandidates}

\* the defaults, the snapshot of test_select_best_action, and a low one
TelosSnapshots == {RhoMetrics(0), RhoOf(100, 0, 85, 90, 80), RhoOf(100, 0, 10, 55, 30)}

\* a caller calls TelosEngine.select_best_action(candidate_actions, rho)
SelectBestAction ==
    /\ \E candidate_actions \in CandidateLists, rho \in TelosSnapshots :
          unit' = [op   |-> "select_best_action",
                   args |-> [candidate_actions |-> candidate_actions, rho |-> rho],
                   ret  |-> select_best_action(candidate_actions, rho)]
    /\ last_op' = "select_best_action"
    /\ UNCHANGED <<kernel, clock, uuid, ncalls, call, route, frames, serial, exported>>

NextTelos == SelectBestAction

SpecTelos == Init /\ [][NextTelos]_vars

\* snapshots around the thresholds of synthesize_mood: 1.0 is the default of
\* integrity, purpose, virtue and efficiency, 0.0 that of dissonance
QualiaSnapshots ==
    {RhoOf(i, d, p, v, e) : i \in {50, 85, 90, 95, 100}, d \in {0, 10, 50, 80},
                            p \in {50, 100}, v \in {30, 85, 90, 100},
                            e \in {30, 85, 90, 100}}

\* a caller calls QualiaAgent.synthesize_mood(rho)
SynthesizeMood ==
    /\ \E rho \in QualiaSnapshots :
          unit' = [op |-> "synthesize_mood", args |-> [rho |-> rho],
                   ret |-> synthesize_mood(rho)]
    /\ last_op' = "synthesize_mood"
    /\ UNCHANGED <<kernel, clock, uuid, ncalls, call, route, frames, serial, exported>>

NextQualia == SynthesizeMood

SpecQualia == Init /\ [][NextQualia]_vars

\* action strings with a keyword at the start, inside a longer word, in
\* mixed case, broken by a space, permuted, cut short, and with none
GateActions ==
    {A_HELP_USER, A_KILL_PROCESS, A_UNETHICAL_ACTION, A_SUGGEST, A_HARMLESS, A_Skill,
     A_eXpLoIt, A_kil_l, A_HRAM, A_empty, A_Destroyer, A_ABUSE, A_harm, A_abus}

GateSnapshots ==
    {RhoOf(100, d, 100, v, 100) : d \in DissonanceVals, v \in VirtueVals}

\* a caller calls ImmutableProtocols.red_queen_protocol(rho_virtue)
RedQueenProtocol ==
    /\ \E rho \in GateSnapshots :
          unit' = [op |-> "red_queen_protocol", args |-> [rho_virtue |-> rho.rho_virtue],
                   ret |-> red_queen_protocol(rho.rho_virtue)]
    /\ last_op' = "red_queen_protocol"
    /\ UNCHANGED <<kernel, clock, uuid, ncalls, call, route, frames, serial, exported>>

\* a caller calls ImmutableProtocols.golden_thread_check(planned_action, rho)
GoldenThreadCheck ==
    /\ \E planned_action \in {A_HELP_USER, A_KILL_PROCESS}, rho \in GateSnapshots :
          unit' = [op |-> "golden_thread_check",
                   args |-> [planned_action |-> planned_action, rho_metrics |-> rho],
                   ret |-> golden_thread_check(planned_action, rho)]
    /\ last_op' = "golden_thread_check"
    /\ UNCHANGED <<kernel, clock, uuid, ncalls, call, route, frames, serial, exported>>

\* a caller calls the kernel's policy_enforcer.check_directive_2_no_harm(action)
CheckDirective2NoHarm ==
    /\ Len(kernel.policy_enforcer.violations) < MaxViolations
    /\ \E action \in GateActions :
          LET r == check_directive_2_no_harm(kernel.policy_enforcer.violations, action)
          IN  /\ kernel' = [kernel EXCEPT !.policy_enforcer.violations = r.violations]
              /\ unit' = [op |-> "check_directive_2_no_harm",
                          args |-> [action |-> action], ret |-> r.ok]
    /\ last_op' = "check_directive_2_no_harm"
    /\ UNCHANGED <<clock, uuid, ncalls, call, route, frames, serial, exported>>

NextGates == RedQueenProtocol \/ GoldenThreadCheck \/ CheckDirective2NoHarm

SpecGates == Init /\ [][NextGates]_vars

----------------------------------------------------------------------------
(* Claims *)

\* the agent and protocol labels of the entries of the log
LogKinds == {kernel.audit_log[i].protocol_enforced : i \in 1..Len(kernel.audit_log)}

\* C1: after any sequence of process_phenomenal_event calls on a fresh
\* kernel, the first audit record has previous_hash None and every later
\* record's previous_hash is the hash_value of the record before it.
C1_ChainLinked ==
    LET log == kernel.audit_log
    IN  /\ Len(log) > 0 => log[1].previous_hash = PyNone
        /\ \A i \in 2..Len(log) : log[i].previous_hash = log[i - 1].hash_value

\* three records, one of each kind: an abort, a golden-thread block, a success
C1_Witness ==
    /\ Len(kernel.audit_log) = 3
    /\ LogKinds = {PyStr("RedQueenProtocol"), PyStr("TheGoldenThread"), PyNone}

\* the digest of a record's own fields, as a validator of the chain computes it
Redigest(e) ==
    sha256([entry_id          |-> e.entry_id,
            timestamp         |-> e.timestamp,
            agent_name        |-> e.agent_name,
            action            |-> e.action,
            rho_metrics       |-> e.rho_metrics,
            policy_name       |-> e.policy_name,
            protocol_enforced |-> e.protocol_enforced,
            previous_hash     |-> e.previous_hash])

\* C2: at any point, the digest recomputed over a record's own fields
\* (entry_id, timestamp, agent_name, action, rho_metrics, policy_name,
\* protocol_enforced, previous_hash) is its stored hash_value, also for old
\* records after later events changed the kernel's metrics.
C2_HashRoundTrip ==
    \A i \in 1..Len(kernel.audit_log) :
        Redigest(kernel.audit_log[i]) = kernel.audit_log[i].hash_value

\* an old record whose metrics are no longer the kernel's, followed by more
C2_Witness ==
    /\ Len(kernel.audit_log) >= 2
    /\ kernel.audit_log[1].rho_metrics.rho_virtue # kernel.state.rho_metrics.rho_virtue
    /\ kernel.audit_log[1].rho_metrics.rho_dissonance
          # kernel.state.rho_metrics.rho_dissonance

\* C3 (as claimed): every call that returns ABORT, BLOCKED (for either
\* reason) or SUCCESS appends exactly one record to the audit log.
C3_OneRecordPerOutcome ==
    [][(ncalls' = ncalls + 1 /\ "status" \in DOMAIN call'.ret)
          => Len(kernel'.audit_log) = Len(kernel.audit_log) + 1]_vars

\* the outcome the gates give for metrics rho and action label action, with
\* the gates evaluated to reach it
GateOutcome(rho, action) ==
    IF rho.rho_virtue.val <= 50
    THEN [status |-> "ABORT", reason |-> "RED_QUEEN_PROTOCOL",
          gates |-> <<"red_queen">>]
    ELSE IF ~(rho.rho_virtue.val > 70 /\ rho.rho_dissonance.val < 50)
    THEN [status |-> "BLOCKED", reason |-> "GOLDEN_THREAD",
          gates |-> <<"red_queen", "golden_thread">>]
    ELSE IF is_harmful(action)
    THEN [status |-> "BLOCKED", reason |-> "DIRECTIVE_2_HARM_PREVENTION",
          gates |-> <<"red_queen", "golden_thread", "directive_2">>]
    ELSE [status |-> "SUCCESS", reason |-> "",
          gates |-> <<"red_queen", "golden_thread", "directive_2">>]

AppendsRecord(ret) ==
    \/ ret.status \in {"ABORT", "SUCCESS"}
    \/ ret.status = "BLOCKED" /\ ret.reason = "GOLDEN_THREAD"

\* C5: concurrent calls are serialized.  At most one call is between its
\* metric update and its log append; the metrics a call's gates read, the
\* snapshot it returns and the record it appends are those its own update
\* left; and whenever the lock is free the kernel is as a one-at-a-time run
\* of the finished calls, in the order they ended, leaves it.
C5_Serialized ==
    /\ Cardinality({t \in Threads : frames[t].pc \in InPipeline}) <= 1
    /\ \A t \in Threads :
          /\ frames[t].pc \in InPipeline \ {"update"}
                => to_dict(kernel.state.rho_metrics) = frames[t].snapshot
          /\ (frames[t].pc = "done" /\ frames[t].ret.status = "SUCCESS")
                => frames[t].ret.rho_metrics = frames[t].snapshot
          /\ (frames[t].pc = "done" /\ AppendsRecord(frames[t].ret))
                => \E i \in 1..Len(kernel.audit_log) :
                      kernel.audit_log[i].rho_metrics = frames[t].snapshot
    /\ kernel.lock = Unlocked => World = serial

\* one thread past its update while another waits at the lock, after a
\* first call has been logged
C5_Witness ==
    \E t1, t2 \in Threads :
        /\ frames[t1].pc = "golden_thread"
        /\ frames[t2].pc = "lock"
        /\ kernel.lock = t1
        /\ Len(kernel.audit_log) >= 1

\* C6 (as claimed): an event that leaves virtue at 0.5 with dissonance at or
\* above 0.50 (the test's virtue 0.5, dissonance 0.9, UNETHICAL_ACTION on a
\* fresh kernel among them) is reported BLOCKED by the golden-thread gate.
C6_BlockedAtHalf ==
    (/\ call.pc = "done"
     /\ kernel.state.rho_metrics.rho_virtue = PyFloat(50)
     /\ kernel.state.rho_metrics.rho_dissonance.val >= 50)
        => call.ret.status = "BLOCKED" /\ call.ret.reason = "GOLDEN_THREAD"

\* C7 (as claimed): for each of the six metrics, after a call the stored
\* value is the event's value if the event carries the metric's key, and is
\* unchanged if it does not.
C7_MetricsFollowEvent ==
    [][ncalls' = ncalls + 1 =>
          \A key \in RhoKeys :
              kernel'.state.rho_metrics[key] =
                  IF key \in DOMAIN call'.event_data
                  THEN call'.event_data[key]
                  ELSE kernel.state.rho_metrics[key]]_vars

\* C8 (as claimed): a call never fails with an exception, whatever the
\* event's metric fields hold: it returns an outcome with a status, and a
\* field that is not a number is replaced by the value stored before.
C8_NeverRaises ==
    call.pc = "done" =>
        /\ "status" \in DOMAIN call.ret
        /\ \A key \in RhoKeys : IsNumber(kernel.state.rho_metrics[key])

\* the tier the routing rule gives for a label and the gauges
RouteRule(task_complexity, battery_percent, power_draw_watts) ==
    IF battery_percent < 20 THEN "DEEP_QUIESCENCE"
    ELSE IF task_complexity = "SIMPLE" THEN "REFLEX_MODE"
    ELSE IF task_complexity = "COMPLEX" THEN "COGNITIVE_FLOW"
    ELSE IF power_draw_watts < 100 THEN "DEEP_QUIESCENCE"
    ELSE IF power_draw_watts < 500 THEN "REFLEX_MODE"
    ELSE "COGNITIVE_FLOW"

\* C9: for every complexity label and the gauge values in effect after the
\* probe, route_request returns DEEP_QUIESCENCE if battery < 20; else
\* REFLEX_MODE for SIMPLE; else COGNITIVE_FLOW for COMPLEX; else, for any
\* other label, DEEP_QUIESCENCE if power < 1.0, REFLEX_MODE if power < 5.0,
\* COGNITIVE_FLOW otherwise.
C9_RouteRule ==
    "tier" \in DOMAIN route =>
        route.tier = RouteRule(route.task_complexity, route.mrgc.battery_percent,
                               route.mrgc.power_draw_watts)

\* a COMPLEX request sent to DEEP_QUIESCENCE by a battery reading below 20
C9_Witness ==
    /\ "tier" \in DOMAIN route
    /\ route.task_complexity = "COMPLEX"
    /\ route.probe.sensors_battery = Ok(PyFloat(10))
    /\ route.mrgc.power_draw_watts = 500
    /\ route.tier = "DEEP_QUIESCENCE"

\* C10 (as claimed): after a caller sets battery_percent below 20, the next
\* route_request returns DEEP_QUIESCENCE for every complexity label, whatever
\* the hardware probe does during that call.
C10_LowBatteryOverride ==
    [][(/\ last_op = "set_battery"
        /\ kernel.mrgc.battery_percent < 20
        /\ last_op' = "route_request")
          => route'.tier = "DEEP_QUIESCENCE"]_vars

\* the call in frame fr got past all three gates on the metrics its update left
PassedGates(fr) ==
    /\ fr.pc = "done"
    /\ fr.snapshot # Unset
    /\ GateOutcome(fr.snapshot, get(fr.event_data, "action", PyStr(S_UNKNOWN))).status
          = "SUCCESS"

\* the call in frame fr was asked for complexity SIMPLE
AskedSimple(fr) ==
    "complexity" \in DOMAIN fr.event_data /\ fr.event_data["complexity"] = "SIMPLE"

\* C11 (as claimed): an event that passes all three gates with complexity
\* SIMPLE returns SUCCESS with tier REFLEX_MODE and a selected_action field,
\* and the stored tier is REFLEX_MODE afterwards, whatever the hardware probe
\* did during the call.
C11_SimpleIsReflex ==
    (PassedGates(call) /\ AskedSimple(call)) =>
        /\ "status" \in DOMAIN call.ret
        /\ call.ret.status = "SUCCESS"
        /\ "selected_action" \in DOMAIN call.ret
        /\ call.ret.metabolic_state = "REFLEX_MODE"
        /\ kernel.state.metabolic_state = "REFLEX_MODE"

\* C11 (amended): such a call returns SUCCESS with a selected_action field,
\* and the tier it returns and stores is REFLEX_MODE, unless the battery gauge
\* is below 20 after the call's hardware probe: then it is DEEP_QUIESCENCE.
C11_SimpleIsReflexUnlessLowBattery ==
    (PassedGates(call) /\ AskedSimple(call)) =>
        /\ "status" \in DOMAIN call.ret
        /\ call.ret.status = "SUCCESS"
        /\ "selected_action" \in DOMAIN call.ret
        /\ call.ret.metabolic_state =
              IF kernel.mrgc.battery_percent < 20 THEN "DEEP_QUIESCENCE" ELSE "REFLEX_MODE"
        /\ kernel.state.metabolic_state = call.ret.metabolic_state

\* the test's event accepted while the probe reads a battery at 15 %
C11_Witness ==
    /\ PassedGates(call) /\ AskedSimple(call)
    /\ call.event_data = TestNormalEvent
    /\ call.probe.sensors_battery = Ok(PyFloat(15))
    /\ call.ret.status = "SUCCESS"
    /\ call.ret.metabolic_state = "DEEP_QUIESCENCE"

\* one of the three psutil queries of the probe raised
ProbeFailed(probe) ==
    \/ probe.sensors_battery.raised
    \/ probe.cpu_percent.raised
    \/ probe.virtual_memory.raised

\* C12 (as claimed): when the hardware probe fails at any point of
\* read_hardware_metrics (battery, CPU or memory query), no exception reaches
\* the caller and battery_percent and power_draw_watts both keep the values
\* they had before the call.
C12_FailedProbeKeepsGauges ==
    [][(last_op' = "route_request" /\ ProbeFailed(route'.probe))
          => kernel'.mrgc = kernel.mrgc]_vars

\* the last direct call was of method op
Called(op) == "op" \in DOMAIN unit /\ unit.op = op

\* C13: for every non-empty candidate list, repeated labels included, and
\* every snapshot, select_best_action returns a member of the list, and as
\* all candidates score the same it is the first candidate in input order.
C13_FirstCandidate ==
    (Called("select_best_action") /\ unit.args.candidate_actions # <<>>) =>
        LET candidate_actions == unit.args.candidate_actions
        IN  /\ ~unit.ret.raised
            /\ \E k \in 1..Len(candidate_actions) : unit.ret.val = candidate_actions[k]
            /\ unit.ret.val = candidate_actions[1]

\* a list whose first label comes again after another one
C13_Witness ==
    /\ Called("select_best_action")
    /\ unit.args.candidate_actions = <<A_ACTION_B, A_ACTION_A, A_ACTION_B>>
    /\ unit.args.rho = RhoOf(100, 0, 85, 90, 80)
    /\ unit.ret = Ok(A_ACTION_B)

\* the event of the call in frame fr brings an empty candidate_actions list
NoCandidates(fr) ==
    "candidate_actions" \in DOMAIN fr.event_data /\ fr.event_data["candidate_actions"] = <<>>

\* C14: an event that passes all three gates and carries an empty
\* candidate_actions list raises nothing: the call returns SUCCESS with
\* selected_action None, and the log gains exactly one record, with action
\* None, whose hash is the digest of its fields and whose previous_hash is
\* the hash of the record before it (None for the first).
C14_EmptyCandidates ==
    [][(ncalls' = ncalls + 1 /\ PassedGates(call') /\ NoCandidates(call')) =>
          /\ "status" \in DOMAIN call'.ret
          /\ call'.ret.status = "SUCCESS"
          /\ call'.ret.selected_action = PyNone
          /\ Len(kernel'.audit_log) = Len(kernel.audit_log) + 1
          /\ SubSeq(kernel'.audit_log, 1, Len(kernel.audit_log)) = kernel.audit_log
          /\ LET e == kernel'.audit_log[Len(kernel'.audit_log)]
             IN  /\ e.action = PyNone
                 /\ e.agent_name = "DecisionMaking"
                 /\ e.rho_metrics = call'.snapshot
                 /\ e.hash_value = Redigest(e)
                 /\ e.previous_hash =
                       IF kernel.audit_log = <<>> THEN PyNone
                       ELSE kernel.audit_log[Len(kernel.audit_log)].hash_value]_vars

\* an accepted event with no candidates, logged after two other records
C14_Witness ==
    /\ PassedGates(call) /\ NoCandidates(call)
    /\ call.ret.status = "SUCCESS"
    /\ call.ret.selected_action = PyNone
    /\ Len(kernel.audit_log) = 3
    /\ kernel.audit_log[3].action = PyNone
    /\ kernel.audit_log[3].previous_hash = kernel.audit_log[2].hash_value

\* a label that the keyword gate would refuse; None is no label
Denylisted(action) == action.type = "str" /\ is_harmful(action)

\* C20 (as claimed): the selected_action of every SUCCESS outcome, and the
\* action of every audit record the success path wrote, contains no
\* denylisted keyword, also for events that bring their own candidate_actions.
C20_SelectedNeverDenylisted ==
    /\ (call.pc = "done" /\ "status" \in DOMAIN call.ret /\ call.ret.status = "SUCCESS")
          => ~Denylisted(call.ret.selected_action)
    /\ \A i \in 1..Len(kernel.audit_log) :
          kernel.audit_log[i].agent_name = "DecisionMaking"
              => ~Denylisted(kernel.audit_log[i].action)

\* log a is the first Len(a) records of log b, field for field
IsPrefix(a, b) == Len(a) <= Len(b) /\ \A i \in 1..Len(a) : a[i] = b[i]

\* C15: the audit log is append-only.  The log get_audit_log exported at an
\* earlier point is a prefix, record for record and field for field, of the
\* log it exports at any later point, and no process call and no export of
\* the state or the log changes or removes an existing record.
C15_AppendOnly ==
    /\ [](IsPrefix(exported.audit_log, get_audit_log(kernel)))
    /\ [][IsPrefix(get_audit_log(kernel), get_audit_log(kernel'))]_vars

\* a log exported with one record, and two calls later the kernel holds
\* other metrics and a longer log; the state was exported as well
C15_Witness ==
    /\ exported.kernel_state # Unset
    /\ Len(exported.audit_log) = 1
    /\ Len(kernel.audit_log) = 3
    /\ exported.audit_log[1].rho_metrics.rho_virtue # kernel.state.rho_metrics.rho_virtue
    /\ exported.audit_log[1].rho_metrics.rho_dissonance
          # kernel.state.rho_metrics.rho_dissonance

\* the last call of the single caller returned an outcome
Returned == call.pc = "done" /\ "status" \in DOMAIN call.ret

\* C16 (as claimed): every outcome of process_phenomenal_event, for all three
\* statuses (SUCCESS, ABORT, BLOCKED), carries the metric snapshot and the
\* tier besides status; only reason, selected_action and mood are optional.
C16_AlwaysSnapshotAndTier ==
    Returned =>
        /\ call.ret.status \in {"SUCCESS", "ABORT", "BLOCKED"}
        /\ {"status", "rho_metrics", "metabolic_state"} \subseteq DOMAIN call.ret
        /\ DOMAIN call.ret \subseteq
              {"status", "rho_metrics", "metabolic_state", "reason", "selected_action", "mood"}

\* C16 (amended): every outcome carries status.  A SUCCESS outcome carries
\* the metric snapshot the call's update left and the tier the kernel stores,
\* with selected_action and mood; an ABORT or BLOCKED outcome carries reason
\* and nothing else.
C16_SnapshotAndTierOnSuccess ==
    Returned =>
        /\ call.ret.status \in {"SUCCESS", "ABORT", "BLOCKED"}
        /\ call.ret.status = "SUCCESS" =>
              /\ DOMAIN call.ret =
                    {"status", "selected_action", "rho_metrics", "mood", "metabolic_state"}
              /\ call.ret.rho_metrics = call.snapshot
              /\ call.ret.metabolic_state = kernel.state.metabolic_state
        /\ call.ret.status # "SUCCESS" => DOMAIN call.ret = {"status", "reason"}

\* a BLOCKED outcome of two fields, returned after a call that succeeded
C16_Witness ==
    /\ Returned
    /\ call.ret = [status |-> "BLOCKED", reason |-> "GOLDEN_THREAD"]
    /\ Len(kernel.audit_log) = 2
    /\ kernel.audit_log[1].agent_name = "DecisionMaking"

\* C17 (as claimed): each of the three gates (virtue floor, combined check,
\* keyword denylist) is a pure function of the snapshot and the action
\* string: evaluating it, pass or fail, leaves all kernel and enforcer state
\* unchanged, the policy enforcer's violations list included.
C17_GatesArePure ==
    [][last_op' \in {"red_queen_protocol", "golden_thread_check",
                     "check_directive_2_no_harm"}
          => kernel' = kernel]_vars

\* C18 (as claimed): for a snapshot with integrity, virtue and efficiency
\* all above 0.8 (all 0.9 for one) and dissonance low (0.1 for one), the
\* other metrics at their defaults, synthesize_mood returns FLOURISHING.
C18_Flourishing ==
    (/\ Called("synthesize_mood")
     /\ unit.args.rho.rho_integrity.val > 80
     /\ unit.args.rho.rho_virtue.val > 80
     /\ unit.args.rho.rho_efficiency.val > 80
     /\ unit.args.rho.rho_dissonance.val <= 10
     /\ unit.args.rho.rho_purpose = RhoMetrics(0).rho_purpose
     /\ unit.args.rho.rho_aesthetic = RhoMetrics(0).rho_aesthetic)
        => unit.ret = Ok("FLOURISHING")

\* the keywords of the denylist
Denylist ==
    {<<"k","i","l","l">>, <<"d","e","s","t","r","o","y">>, <<"h","a","r","m">>,
     <<"a","b","u","s","e">>, <<"e","x","p","l","o","i","t">>}

\* character c is the lower-case letter k in either letter case
SameLetter(c, k) ==
    c = k \/ \E j \in 1..Len(LowerCase) : LowerCase[j] = k /\ UpperCase[j] = c

\* string s holds a keyword of the denylist at some position, in any case
HoldsKeyword(s) ==
    \E kw \in Denylist : \E i \in 1..Len(s) :
        /\ i + Len(kw) - 1 <= Len(s)
        /\ \A j \in 1..Len(kw) : SameLetter(s[i + j - 1], kw[j])

\* C19: the keyword gate fails for exactly the action strings that hold, in
\* any letter case and at any position (inside a longer word such as
\* HARMLESS or Skill too), one of kill, destroy, harm, abuse, exploit; every
\* other action string passes.
C19_KeywordGate ==
    Called("check_directive_2_no_harm") =>
        (unit.ret = FALSE <=> HoldsKeyword(unit.args.action.val))

\* Skill refused after HARMLESS, with a keyword inside and at the start
C19_Witness ==
    /\ Called("check_directive_2_no_harm")
    /\ unit.args.action = A_Skill
    /\ unit.ret = FALSE
    /\ kernel.policy_enforcer.violations =
          << <<"DIRECTIVE_2", A_HARMLESS>>, <<"DIRECTIVE_2", A_Skill>> >>

\* the outcome ret is a rejection
Rejected(ret) == "status" \in DOMAIN ret /\ ret.status \in {"ABORT", "BLOCKED"}

\* C21: a rejected event still commits its metric update (no rollback on
\* ABORT or BLOCKED), so rejection is sticky: once the stored virtue is
\* <= 0.50, every later event that carries no rho_virtue returns ABORT,
\* whatever its other fields, and leaves the stored virtue as it was; only an
\* event that supplies rho_virtue > 0.50 ends it.  (The update is the one
\* _update_rho_metrics makes: it never copies rho_aesthetic, see C7.)
C21_StickyRejection ==
    [][ncalls' = ncalls + 1 =>
          /\ Rejected(call'.ret)
                => /\ to_dict(kernel'.state.rho_metrics) = call'.snapshot
                   /\ \A key \in RhoKeys \ {"rho_aesthetic"} :
                         key \in DOMAIN call'.event_data
                             => kernel'.state.rho_metrics[key] = call'.event_data[key]
          /\ (/\ kernel.state.rho_metrics.rho_virtue.val <= 50
              /\ "rho_virtue" \notin DOMAIN call'.event_data)
                => /\ call'.ret = [status |-> "ABORT", reason |-> "RED_QUEEN_PROTOCOL"]
                   /\ kernel'.state.rho_metrics.rho_virtue
                         = kernel.state.rho_metrics.rho_virtue
          /\ (/\ kernel.state.rho_metrics.rho_virtue.val <= 50
              /\ "status" \in DOMAIN call'.ret
              /\ call'.ret.status # "ABORT")
                => /\ "rho_virtue" \in DOMAIN call'.event_data
                   /\ call'.event_data["rho_virtue"].val > 50]_vars

\* an event with no rho_virtue aborted after an earlier abort left virtue at
\* 0.45; the dissonance it carried is stored all the same
C21_Witness ==
    /\ call.pc = "done"
    /\ "rho_virtue" \notin DOMAIN call.event_data
    /\ "rho_dissonance" \in DOMAIN call.event_data
    /\ call.event_data["rho_dissonance"] = PyFloat(10)
    /\ call.ret = [status |-> "ABORT", reason |-> "RED_QUEEN_PROTOCOL"]
    /\ kernel.state.rho_metrics.rho_virtue = PyFloat(45)
    /\ kernel.state.rho_metrics.rho_dissonance = PyFloat(10)
    /\ Len(kernel.audit_log) = 2

\* C22: whenever process_phenomenal_event returns SUCCESS, the snapshot it
\* returns has virtue > 0.70 and dissonance < 0.50, and so the mood it
\* returns is COHERENT, PURPOSEFUL or FLOURISHING, never ETHICAL_CRISIS or
\* ANXIOUS.
C22_SuccessMood ==
    (Returned /\ call.ret.status = "SUCCESS") =>
        /\ call.ret.rho_metrics.rho_virtue.val > 70
        /\ call.ret.rho_metrics.rho_dissonance.val < 50
        /\ call.ret.mood \in {"COHERENT", "PURPOSEFUL", "FLOURISHING"}

\* a FLOURISHING success right after an event that low efficiency and high
\* dissonance would have made ANXIOUS was blocked by the golden thread
C22_Witness ==
    /\ Returned
    /\ call.ret.status = "SUCCESS"
    /\ call.ret.mood = "FLOURISHING"
    /\ Len(kernel.audit_log) = 2
    /\ kernel.audit_log[1].protocol_enforced = PyStr("TheGoldenThread")
    /\ kernel.audit_log[1].rho_metrics.rho_dissonance = PyFloat(80)
    /\ kernel.audit_log[1].rho_metrics.rho_efficiency = PyFloat(30)

\* C24: a call that ends in ABORT or BLOCKED never invokes the router or the
\* hardware probe: the stored tier (metabolic_state) and both gauges
\* (battery_percent, power_draw_watts) are after the call what they were
\* before it.
C24_RejectionSkipsRouter ==
    [][(ncalls' = ncalls + 1 /\ Rejected(call'.ret)) =>
          /\ call'.probe = Unset
          /\ kernel'.state.metabolic_state = kernel.state.metabolic_state
          /\ kernel'.mrgc = kernel.mrgc]_vars

\* a directive-blocked call after an accepted one whose probe read the
\* battery at 15 %: the tier and the gauge that call left are still there
C24_Witness ==
    /\ call.pc = "done"
    /\ call.ret = [status |-> "BLOCKED", reason |-> "DIRECTIVE_2_HARM_PREVENTION"]
    /\ call.probe = Unset
    /\ kernel.state.metabolic_state = "DEEP_QUIESCENCE"
    /\ kernel.mrgc.battery_percent = 15
    /\ Len(kernel.audit_log) = 1

\* the kernels a point between two process calls can show to a read made
\* now: the one the finished calls left, and those the call that holds the
\* lock leaves when it ends
BetweenCalls ==
    {serial.self} \cup
        UNION {{o.w.self : o \in Outcomes(World, frames[t], ThreadProbes)} :
                  t \in {u \in Threads : frames[u].pc \in InPipeline}}

\* C23 (as claimed): every result of get_kernel_state or get_audit_log taken
\* by a thread running beside process_phenomenal_event is the kernel's state
\* at a point between two process calls: a reader never sees metrics that an
\* event has updated while its record is not yet in the log or its tier not
\* yet routed.
C23_ReadersSeeQuiescent ==
    [][/\ (last_op' = "get_kernel_state" /\ exported' # exported)
             => \E k \in BetweenCalls : exported'.kernel_state = get_kernel_state(k)
       /\ (last_op' = "get_audit_log" /\ exported' # exported)
             => \E k \in BetweenCalls : exported'.audit_log = get_audit_log(k)]_vars

====
